---------------------------- MODULE Spec2Model ----------------------------
(***************************************************************************)
(* Model of the `migrate` command (src/migrate/migrate.go): the sequential *)
(* checkpoint / archive / transfer / unpack / restore pipeline run by      *)
(* Command.Action, followed by the completion monitor, in which the        *)
(* process-wait goroutine and the liveness-poll goroutines race to signal  *)
(* one sync.WaitGroup.                                                     *)
(*                                                                         *)
(* A path is the sequence of its '/'-separated segments ("/run/c2" is      *)
(* <<"", "run", "c2">>), so fmt.Sprintf("%s/images/0", p) is               *)
(* p \o <<"images", "0">>.  A command line is a sequence of such words.    *)
(* An error value is a number; Nil is Go's nil error.                      *)
(***************************************************************************)
EXTENDS Integers, Sequences, FiniteSets, TLC

\* Number of distinct non-nil error values the remote commands, the copy
\* and the restore process can return.
NumErrs == 2

\* Go's nil error.
Nil == 0

Errs == 1..NumErrs
ErrVals == {Nil} \cup Errs

\* The paths srcUrl.Path and dstUrl.Path the command line can give.
SrcPaths == { <<"", "c1">>, <<"", "run", "c2">> }
DstPaths == { <<"", "d">>, <<"", "var", "dst">> }

VARIABLES
    preDump,         \* c.Bool("pre-dump")
    srcPath,         \* srcUrl.Path
    dstPath,         \* dstUrl.Path
    containerId,     \* containerId
    imagesPath,      \* imagesPath
    migrateStart,    \* migrateStart: 0 is the zero time.Time
    downtime,        \* downtime
    calls,           \* the remote commands and copies issued so far, in order
    restoreProc,     \* the restore process behind restoreCmd
    restoreExit,     \* what restoreCmd.Wait returns once the process has exited
    restoreSucceed,  \* restoreSucceed
    restoreError,    \* restoreError
    wgCounter,       \* the counter of wg
    signals,         \* the goroutines that called wg.Done, in order
    ticker,          \* ticker: "none", "running" or "stopped"
    statCalls,       \* the stat commands isRunning has issued
    reports,         \* the outcomes logged at the end of Action
    pcM,             \* position of Action
    pcA,             \* position of the process-wait goroutine
    pcB,             \* position of the liveness-poll goroutine
    pcC,             \* position of the ticker goroutine
    exit             \* "none", "fatal" (log.Fatal) or "panic"

planVars == <<preDump, srcPath, dstPath>>
pipeVars == <<containerId, imagesPath, migrateStart, calls, restoreProc>>
monVars  == <<restoreExit, restoreSucceed, restoreError, wgCounter, signals,
              ticker, statCalls, reports, downtime, pcA, pcB, pcC>>
vars == <<preDump, srcPath, dstPath, containerId, imagesPath, migrateStart,
          downtime, calls, restoreProc, restoreExit, restoreSucceed,
          restoreError, wgCounter, signals, ticker, statCalls, reports,
          pcM, pcA, pcB, pcC, exit>>

-----------------------------------------------------------------------------
(* Pure helpers *)

\* A literal word of a command line.
Lit(s) == <<s>>

\* fmt.Sprintf("%s/<rest>", path)
Join(path, rest) == path \o rest

\* getContainerId: what follows the last separator of the path.
getContainerId(path) == path[Len(path)]

\* cmd.URL(path): the locator of a path on a host.
URL(host, path) == <<host>> \o path

\* time.Now(): the logical time is the number of commands issued so far, plus one.
Now == Len(calls) + 1

Call(host, kind, argv, e) == [host |-> host, kind |-> kind, argv |-> argv, err |-> e]

\* The argument list checkpoint() builds.
checkpointArgv(id, path, predump) ==
    LET args == <<Lit("runc"), Lit("--id"), Lit(id), Lit("checkpoint"),
                  Lit("--image-path"), path>>
    IN  <<Lit("sudo")>> \o (IF predump THEN Append(args, Lit("--pre-dump")) ELSE args)

\* The final checkpoint issued with no previous-images directory.
finalCheckpointArgvNoPrev(id, path, prev) ==
    <<Lit("sudo"), Lit("runc"), Lit("--id"), Lit(id), Lit("checkpoint"),
      Lit("--image-path"), path>>

\* The final checkpoint of pre-dump mode, issued inline.
finalCheckpointArgv(id, path, prev) ==
    <<Lit("sudo"), Lit("runc"), Lit("--id"), Lit(id), Lit("checkpoint"),
      Lit("--image-path"), path, Lit("--prev-images-dir"), prev>>

prepareDirArgv(path) == <<Lit("mkdir"), Lit("-p"), path>>

prepareTarArgv(tarFile, workDir) ==
    <<Lit("sudo"), Lit("tar"), Lit("-czf"), tarFile, Lit("-C"),
      Join(workDir, <<"">>), Lit(".")>>

unpackTarArgv(tarFile, workDir) ==
    <<Lit("sudo"), Lit("tar"), Lit("-C"), workDir, Lit("-xvzf"), tarFile>>

restoreArgv(id, images, config, runtime) ==
    <<Lit("sudo"), Lit("runc"), Lit("--id"), Lit(id), Lit("restore"),
      Lit("--image-path"), images, Lit("--config-file"), config,
      Lit("--runtime-file"), runtime>>

statArgv(id) ==
    <<Lit("stat"), <<"", "var", "run", "opencontainer", "containers", id>> >>

\* The liveness test with its polarity reversed: true when the stat succeeds.
isRunningInverted(statErr) == IF statErr = Nil THEN TRUE ELSE FALSE

\* isRunning: true exactly when the stat command returned an error.
isRunning(statErr) == IF statErr # Nil THEN TRUE ELSE FALSE

-----------------------------------------------------------------------------
(* A blocking step of Action: the command returns e; a non-nil e is fatal. *)

\* The step without the abort: an error is logged and Action goes on.
StepNoAbort(from, to, host, kind, argv) ==
    /\ exit = "none"
    /\ pcM = from
    /\ \E e \in ErrVals :
         /\ calls' = Append(calls, Call(host, kind, argv, e))
         /\ pcM' = to
         /\ exit' = exit

Step(from, to, host, kind, argv) ==
    /\ exit = "none"
    /\ pcM = from
    /\ \E e \in ErrVals :
         /\ calls' = Append(calls, Call(host, kind, argv, e))
         /\ IF e = Nil
              THEN pcM' = to /\ exit' = exit
              ELSE pcM' = pcM /\ exit' = "fatal"

prepareDir(from, to, host, path) == Step(from, to, host, "run", prepareDirArgv(path))

checkpoint(from, to, host, id, path, predump) ==
    Step(from, to, host, "run", checkpointArgv(id, path, predump))

prepareTar(from, to, host, tarFile, workDir) ==
    Step(from, to, host, "run", prepareTarArgv(tarFile, workDir))

unpackTar(from, to, host, tarFile, workDir) ==
    Step(from, to, host, "run", unpackTarArgv(tarFile, workDir))

Scp(from, to, srcFile, dstDir) ==
    Step(from, to, "local", "scp", <<URL("src", srcFile), URL("dst", dstDir)>>)

\* The paths Action formats.
predumpPath   == Join(srcPath, <<"images", "0">>)
SrcImages1    == Join(srcPath, <<"images", "1">>)
SrcImages     == Join(srcPath, <<"images">>)
DstImages0    == Join(dstPath, <<"images", "0">>)
DstImages1    == Join(dstPath, <<"images", "1">>)
DstImages     == Join(dstPath, <<"images">>)
SrcPredumpTar == Join(srcPath, <<"predump.tar.gz">>)
SrcDumpTar    == Join(srcPath, <<"dump.tar.gz">>)
ConfigFile    == Join(dstPath, <<"config.json">>)
RuntimeFile   == Join(dstPath, <<"runtime.json">>)

-----------------------------------------------------------------------------
Init ==
    /\ preDump \in BOOLEAN
    /\ srcPath \in SrcPaths
    /\ dstPath \in DstPaths
    /\ containerId = ""
    /\ imagesPath = <<>>
    /\ migrateStart = 0
    /\ downtime = 0
    /\ calls = <<>>
    /\ restoreProc = "none"
    /\ restoreExit = Nil
    /\ restoreSucceed = FALSE
    /\ restoreError = Nil
    /\ wgCounter = 0
    /\ signals = <<>>
    /\ ticker = "none"
    /\ statCalls = {}
    /\ reports = <<>>
    /\ pcM = "start"
    /\ pcA = "off"
    /\ pcB = "off"
    /\ pcC = "off"
    /\ exit = "none"


-----------------------------------------------------------------------------
(* Action, lines 33-45 *)

pipeFrame == UNCHANGED <<planVars, containerId, imagesPath, migrateStart,
                         restoreProc, monVars>>

Prepare ==
    /\ exit = "none"
    /\ pcM = "start"
    /\ containerId' = getContainerId(srcPath)
    /\ pcM' = IF preDump THEN "g0_mkdir_src" ELSE "sp_mkdir_src"
    /\ UNCHANGED <<planVars, imagesPath, migrateStart, calls, restoreProc,
                   monVars, exit>>

-----------------------------------------------------------------------------
(* Action, pre-dump branch: generation 0 (lines 48-65) *)

\* The pre-dump directory prepared on the destination instead of the source.
Gen0PrepareDirSrcOnDst ==
    /\ prepareDir("g0_mkdir_src", "g0_checkpoint", "dst", predumpPath)
    /\ pipeFrame

Gen0PrepareDirSrc ==
    /\ prepareDir("g0_mkdir_src", "g0_checkpoint", "src", predumpPath)
    /\ pipeFrame

\* The pre-dump checkpoint with the downtime clock started at it.
Gen0CheckpointStartsClock ==
    /\ checkpoint("g0_checkpoint", "g0_tar", "src", containerId, predumpPath, TRUE)
    /\ migrateStart' = Now
    /\ UNCHANGED <<planVars, containerId, imagesPath, restoreProc, monVars>>

Gen0Checkpoint ==
    /\ checkpoint("g0_checkpoint", "g0_tar", "src", containerId, predumpPath, TRUE)
    /\ pipeFrame

Gen0PrepareTar ==
    /\ prepareTar("g0_tar", "g0_mkdir_dst", "src", SrcPredumpTar, predumpPath)
    /\ pipeFrame

Gen0PrepareDirDst ==
    /\ prepareDir("g0_mkdir_dst", "g0_scp", "dst", DstImages0)
    /\ pipeFrame

Gen0Scp ==
    /\ Scp("g0_scp", "g0_untar", SrcPredumpTar, DstImages0)
    /\ pipeFrame

Gen0UnpackTar ==
    /\ unpackTar("g0_untar", "g1_clock", "dst",
                 Join(dstPath, <<"images", "0", "predump.tar.gz">>), DstImages0)
    /\ pipeFrame

(* Action, pre-dump branch: the final image (lines 67-97) *)

PdClockStart ==
    /\ exit = "none"
    /\ pcM = "g1_clock"
    /\ migrateStart' = Now
    /\ pcM' = "g1_checkpoint"
    /\ UNCHANGED <<planVars, containerId, imagesPath, calls, restoreProc,
                   monVars, exit>>

Gen1Checkpoint ==
    /\ imagesPath' = SrcImages1
    /\ Step("g1_checkpoint", "g1_tar", "src", "run",
            finalCheckpointArgv(containerId, imagesPath', predumpPath))
    /\ UNCHANGED <<planVars, containerId, migrateStart, restoreProc, monVars>>

\* The archive followed by the copy, with the destination directory not prepared.
Gen1PrepareTarSkipsMkdir ==
    /\ prepareTar("g1_tar", "g1_scp", "src", SrcDumpTar, imagesPath)
    /\ pipeFrame

Gen1PrepareTar ==
    /\ prepareTar("g1_tar", "g1_mkdir_dst", "src", SrcDumpTar, imagesPath)
    /\ pipeFrame

Gen1PrepareDirDst ==
    /\ prepareDir("g1_mkdir_dst", "g1_scp", "dst", DstImages1)
    /\ pipeFrame

Gen1Scp ==
    /\ Scp("g1_scp", "g1_untar", SrcDumpTar, DstImages1)
    /\ pipeFrame

Gen1UnpackTar ==
    /\ unpackTar("g1_untar", "g1_restore", "dst",
                 Join(dstPath, <<"images", "1", "dump.tar.gz">>), DstImages1)
    /\ pipeFrame

\* dst.Start: a launched restore process is running.
\* The restore launched on the pre-dump image of the destination.
PdRestoreStartImages0 ==
    /\ Step("g1_restore", "mon_add", "dst", "start",
            restoreArgv(containerId, DstImages0, ConfigFile, RuntimeFile))
    /\ restoreProc' = IF exit' = "none" THEN "running" ELSE restoreProc
    /\ UNCHANGED <<planVars, containerId, imagesPath, migrateStart, monVars>>

PdRestoreStart ==
    /\ Step("g1_restore", "mon_add", "dst", "start",
            restoreArgv(containerId, DstImages1, ConfigFile, RuntimeFile))
    /\ restoreProc' = IF exit' = "none" THEN "running" ELSE restoreProc
    /\ UNCHANGED <<planVars, containerId, imagesPath, migrateStart, monVars>>

-----------------------------------------------------------------------------
(* Action, single-pass branch (lines 99-129) *)

\* The directory is prepared and the checkpoint follows with no clock start.
SpPrepareDirSrcSkipsClock ==
    /\ imagesPath' = SrcImages
    /\ prepareDir("sp_mkdir_src", "sp_checkpoint", "src", imagesPath')
    /\ UNCHANGED <<planVars, containerId, migrateStart, restoreProc, monVars>>

SpPrepareDirSrc ==
    /\ imagesPath' = SrcImages
    /\ prepareDir("sp_mkdir_src", "sp_clock", "src", imagesPath')
    /\ UNCHANGED <<planVars, containerId, migrateStart, restoreProc, monVars>>

SpClockStart ==
    /\ exit = "none"
    /\ pcM = "sp_clock"
    /\ migrateStart' = Now
    /\ pcM' = "sp_checkpoint"
    /\ UNCHANGED <<planVars, containerId, imagesPath, calls, restoreProc,
                   monVars, exit>>

SpCheckpoint ==
    /\ checkpoint("sp_checkpoint", "sp_tar", "src", containerId, imagesPath, FALSE)
    /\ pipeFrame

SpPrepareTar ==
    /\ prepareTar("sp_tar", "sp_mkdir_dst", "src", SrcDumpTar, imagesPath)
    /\ pipeFrame

SpPrepareDirDst ==
    /\ prepareDir("sp_mkdir_dst", "sp_scp", "dst", DstImages)
    /\ pipeFrame

SpScp ==
    /\ Scp("sp_scp", "sp_untar", SrcDumpTar, DstImages)
    /\ pipeFrame

SpUnpackTar ==
    /\ unpackTar("sp_untar", "sp_restore", "dst",
                 Join(dstPath, <<"images", "dump.tar.gz">>), DstImages)
    /\ pipeFrame

SpRestoreStart ==
    /\ Step("sp_restore", "mon_add", "dst", "start",
            restoreArgv(containerId, DstImages, ConfigFile, RuntimeFile))
    /\ restoreProc' = IF exit' = "none" THEN "running" ELSE restoreProc
    /\ UNCHANGED <<planVars, containerId, imagesPath, migrateStart, monVars>>

-----------------------------------------------------------------------------
(* The completion monitor: Action, lines 131-172 *)

\* wg.Done(): the counter drops by one; a negative counter panics.
wgDone(who) ==
    /\ wgCounter' = wgCounter - 1
    /\ signals' = Append(signals, who)
    /\ exit' = IF wgCounter - 1 < 0 THEN "panic" ELSE exit

\* One isRunning call: the stat command is issued on dst and returns e.
stat(e) == statCalls' = statCalls \cup {Call("dst", "run", statArgv(containerId), e)}

WgAdd ==
    /\ exit = "none"
    /\ pcM = "mon_add"
    /\ restoreSucceed' = FALSE
    /\ restoreError' = Nil
    /\ wgCounter' = wgCounter + 1
    /\ pcM' = "mon_go_wait"
    /\ UNCHANGED <<planVars, pipeVars, restoreExit, signals, ticker, statCalls,
                   reports, downtime, pcA, pcB, pcC, exit>>

GoWait ==
    /\ exit = "none"
    /\ pcM = "mon_go_wait"
    /\ pcA' = "wait"
    /\ pcM' = "mon_go_poll"
    /\ UNCHANGED <<planVars, pipeVars, restoreExit, restoreSucceed, restoreError,
                   wgCounter, signals, ticker, statCalls, reports, downtime,
                   pcB, pcC, exit>>

GoPoll ==
    /\ exit = "none"
    /\ pcM = "mon_go_poll"
    /\ pcB' = "check"
    /\ pcM' = "mon_wait"
    /\ UNCHANGED <<planVars, pipeVars, restoreExit, restoreSucceed, restoreError,
                   wgCounter, signals, ticker, statCalls, reports, downtime,
                   pcA, pcC, exit>>

\* wg.Wait(): returns once the counter is zero.
WgWait ==
    /\ exit = "none"
    /\ pcM = "mon_wait"
    /\ wgCounter = 0
    /\ pcM' = "mon_since"
    /\ UNCHANGED <<planVars, pipeVars, monVars, exit>>

Since ==
    /\ exit = "none"
    /\ pcM = "mon_since"
    /\ downtime' = Now - migrateStart
    /\ pcM' = "mon_if"
    /\ UNCHANGED <<planVars, pipeVars, restoreExit, restoreSucceed, restoreError,
                   wgCounter, signals, ticker, statCalls, reports, pcA, pcB,
                   pcC, exit>>

IfRestoreSucceed ==
    /\ exit = "none"
    /\ pcM = "mon_if"
    /\ pcM' = IF restoreSucceed THEN "mon_log_ok" ELSE "mon_log_err"
    /\ UNCHANGED <<planVars, pipeVars, monVars, exit>>

LogSuccess ==
    /\ exit = "none"
    /\ pcM = "mon_log_ok"
    /\ reports' = Append(reports, [succeeded |-> TRUE, cause |-> Nil,
                                   downtime |-> downtime])
    /\ pcM' = "returned"
    /\ UNCHANGED <<planVars, pipeVars, restoreExit, restoreSucceed, restoreError,
                   wgCounter, signals, ticker, statCalls, downtime, pcA, pcB,
                   pcC, exit>>

LogError ==
    /\ exit = "none"
    /\ pcM = "mon_log_err"
    /\ reports' = Append(reports, [succeeded |-> FALSE, cause |-> restoreError,
                                   downtime |-> downtime])
    /\ pcM' = "returned"
    /\ UNCHANGED <<planVars, pipeVars, restoreExit, restoreSucceed, restoreError,
                   wgCounter, signals, ticker, statCalls, downtime, pcA, pcB,
                   pcC, exit>>

-----------------------------------------------------------------------------
(* The restore process on the destination host *)

RestoreExit ==
    /\ restoreProc = "running"
    /\ \E e \in ErrVals : restoreExit' = e
    /\ restoreProc' = "exited"
    /\ UNCHANGED <<planVars, containerId, imagesPath, migrateStart, calls,
                   restoreSucceed, restoreError, wgCounter, signals, ticker,
                   statCalls, reports, downtime, pcM, pcA, pcB, pcC, exit>>

-----------------------------------------------------------------------------
(* The process-wait goroutine, lines 136-139 *)

\* restoreCmd.Wait() returns and its result is dropped.
WaitReturnDropsError ==
    /\ exit = "none"
    /\ pcA = "wait"
    /\ restoreProc = "exited"
    /\ pcA' = "done"
    /\ UNCHANGED <<planVars, pipeVars, restoreExit, restoreSucceed, restoreError,
                   wgCounter, signals, ticker, statCalls, reports, downtime,
                   pcM, pcB, pcC, exit>>

WaitReturn ==
    /\ exit = "none"
    /\ pcA = "wait"
    /\ restoreProc = "exited"
    /\ restoreError' = restoreExit
    /\ pcA' = "done"
    /\ UNCHANGED <<planVars, pipeVars, restoreExit, restoreSucceed, wgCounter,
                   signals, ticker, statCalls, reports, downtime, pcM, pcB,
                   pcC, exit>>

WaitDone ==
    /\ exit = "none"
    /\ pcA = "done"
    /\ wgDone("wait")
    /\ pcA' = "ret"
    /\ UNCHANGED <<planVars, pipeVars, restoreExit, restoreSucceed, restoreError,
                   ticker, statCalls, reports, downtime, pcM, pcB, pcC>>

-----------------------------------------------------------------------------
(* The liveness-poll goroutine, lines 141-161 *)

\* The immediate check whose result is ignored: the ticker is always set up.
PollFastCheckAlwaysTicker ==
    /\ exit = "none"
    /\ pcB = "check"
    /\ \E e \in ErrVals :
         /\ stat(e)
         /\ pcB' = "new_ticker"
    /\ UNCHANGED <<planVars, pipeVars, restoreExit, restoreSucceed, restoreError,
                   wgCounter, signals, ticker, reports, downtime, pcM, pcA,
                   pcC, exit>>

PollFastCheck ==
    /\ exit = "none"
    /\ pcB = "check"
    /\ \E e \in ErrVals :
         /\ stat(e)
         /\ pcB' = IF isRunning(e) THEN "set" ELSE "new_ticker"
    /\ UNCHANGED <<planVars, pipeVars, restoreExit, restoreSucceed, restoreError,
                   wgCounter, signals, ticker, reports, downtime, pcM, pcA,
                   pcC, exit>>

\* The running container is seen and restoreSucceed is left as it was.
PollFastSetForgets ==
    /\ exit = "none"
    /\ pcB = "set"
    /\ pcB' = "done"
    /\ UNCHANGED <<planVars, pipeVars, restoreExit, restoreSucceed, restoreError,
                   wgCounter, signals, ticker, statCalls, reports, downtime,
                   pcM, pcA, pcC, exit>>

PollFastSet ==
    /\ exit = "none"
    /\ pcB = "set"
    /\ restoreSucceed' = TRUE
    /\ pcB' = "done"
    /\ UNCHANGED <<planVars, pipeVars, restoreExit, restoreError, wgCounter,
                   signals, ticker, statCalls, reports, downtime, pcM, pcA,
                   pcC, exit>>

PollFastDone ==
    /\ exit = "none"
    /\ pcB = "done"
    /\ wgDone("poll")
    /\ pcB' = "ret"
    /\ UNCHANGED <<planVars, pipeVars, restoreExit, restoreSucceed, restoreError,
                   ticker, statCalls, reports, downtime, pcM, pcA, pcC>>

PollNewTicker ==
    /\ exit = "none"
    /\ pcB = "new_ticker"
    /\ ticker' = "running"
    /\ pcB' = "go_loop"
    /\ UNCHANGED <<planVars, pipeVars, restoreExit, restoreSucceed, restoreError,
                   wgCounter, signals, statCalls, reports, downtime, pcM, pcA,
                   pcC, exit>>

PollGoLoop ==
    /\ exit = "none"
    /\ pcB = "go_loop"
    /\ pcC' = "loop"
    /\ pcB' = "ret"
    /\ UNCHANGED <<planVars, pipeVars, restoreExit, restoreSucceed, restoreError,
                   wgCounter, signals, ticker, statCalls, reports, downtime,
                   pcM, pcA, exit>>

(* The ticker goroutine, lines 150-160 *)

\* range ticker.C: the running ticker delivers one tick.
LoopTick ==
    /\ exit = "none"
    /\ pcC = "loop"
    /\ ticker = "running"
    /\ pcC' = "check"
    /\ UNCHANGED <<planVars, pipeVars, restoreExit, restoreSucceed, restoreError,
                   wgCounter, signals, ticker, statCalls, reports, downtime,
                   pcM, pcA, pcB, exit>>

\* isRunning is called on the tick: the loop goes on while it is false.
LoopCheck ==
    /\ exit = "none"
    /\ pcC = "check"
    /\ \E e \in ErrVals :
         /\ stat(e)
         /\ pcC' = IF isRunning(e) THEN "set" ELSE "loop"
    /\ UNCHANGED <<planVars, pipeVars, restoreExit, restoreSucceed, restoreError,
                   wgCounter, signals, ticker, reports, downtime, pcM, pcA,
                   pcB, exit>>

LoopSet ==
    /\ exit = "none"
    /\ pcC = "set"
    /\ restoreSucceed' = TRUE
    /\ pcC' = "stop"
    /\ UNCHANGED <<planVars, pipeVars, restoreExit, restoreError, wgCounter,
                   signals, ticker, statCalls, reports, downtime, pcM, pcA,
                   pcB, exit>>

LoopStop ==
    /\ exit = "none"
    /\ pcC = "stop"
    /\ ticker' = "stopped"
    /\ pcC' = "done"
    /\ UNCHANGED <<planVars, pipeVars, restoreExit, restoreSucceed, restoreError,
                   wgCounter, signals, statCalls, reports, downtime, pcM, pcA,
                   pcB, exit>>

LoopDone ==
    /\ exit = "none"
    /\ pcC = "done"
    /\ wgDone("poll")
    /\ pcC' = "ret"
    /\ UNCHANGED <<planVars, pipeVars, restoreExit, restoreSucceed, restoreError,
                   ticker, statCalls, reports, downtime, pcM, pcA, pcB>>

-----------------------------------------------------------------------------
Main ==
    \/ Prepare
    \/ Gen0PrepareDirSrc \/ Gen0Checkpoint \/ Gen0PrepareTar
    \/ Gen0PrepareDirDst \/ Gen0Scp \/ Gen0UnpackTar
    \/ PdClockStart \/ Gen1Checkpoint \/ Gen1PrepareTar
    \/ Gen1PrepareDirDst \/ Gen1Scp \/ Gen1UnpackTar \/ PdRestoreStart
    \/ SpPrepareDirSrc \/ SpClockStart \/ SpCheckpoint \/ SpPrepareTar
    \/ SpPrepareDirDst \/ SpScp \/ SpUnpackTar \/ SpRestoreStart
    \/ WgAdd \/ GoWait \/ GoPoll \/ WgWait \/ Since \/ IfRestoreSucceed
    \/ LogSuccess \/ LogError

WaitTask == WaitReturn \/ WaitDone

PollTask == PollFastCheck \/ PollFastSet \/ PollFastDone \/ PollNewTicker
            \/ PollGoLoop

LoopTask == LoopTick \/ LoopCheck \/ LoopSet \/ LoopStop \/ LoopDone

Next == Main \/ WaitTask \/ PollTask \/ LoopTask \/ RestoreExit

Spec == Init /\ [][Next]_vars

\* The Go scheduler runs every runnable goroutine, remote commands return and
\* the ticker keeps ticking; nothing makes the restore process exit.
FairSpec ==
    /\ Spec
    /\ WF_vars(Main)
    /\ WF_vars(WaitTask)
    /\ WF_vars(PollTask)
    /\ WF_vars(LoopTask)

-----------------------------------------------------------------------------
(* What the properties speak of *)

CallIdx == 1..Len(calls)

IsCheckpoint(c) == c.kind = "run" /\ Len(c.argv) >= 5 /\ c.argv[5] = Lit("checkpoint")
IsPreDump(c)    == IsCheckpoint(c) /\ \E i \in 1..Len(c.argv) : c.argv[i] = Lit("--pre-dump")
IsArchive(c)    == c.kind = "run" /\ Len(c.argv) >= 3 /\ c.argv[2] = Lit("tar")
                   /\ c.argv[3] = Lit("-czf")
IsUnpack(c)     == c.kind = "run" /\ Len(c.argv) >= 5 /\ c.argv[2] = Lit("tar")
                   /\ c.argv[5] = Lit("-xvzf")
IsScp(c)        == c.kind = "scp"
IsMkdir(c)      == c.kind = "run" /\ c.argv[1] = Lit("mkdir")
IsRestore(c)    == c.kind = "start"

CheckpointIdx      == {i \in CallIdx : IsCheckpoint(calls[i])}
PreDumpIdx         == {i \in CallIdx : IsPreDump(calls[i])}
FinalCheckpointIdx == CheckpointIdx \ PreDumpIdx

\* The calls of generation 0, told by the images/0 paths they work on.
IsGen0Archive(c) == IsArchive(c) /\ c.argv[6] = Join(predumpPath, <<"">>)
IsGen0Scp(c)     == IsScp(c) /\ c.argv[2] = URL("dst", DstImages0)
IsGen0Unpack(c)  == IsUnpack(c) /\ c.argv[4] = DstImages0

Ok(i) == calls[i].err = Nil

\* Some liveness check so far has seen the container running.
ObservedRunning == \E c \in statCalls : isRunning(c.err)

MonitorStarted ==
    \/ pcA # "off" \/ pcB # "off" \/ pcC # "off"
    \/ wgCounter # 0 \/ signals # <<>> \/ reports # <<>> \/ statCalls # {}

\* wg.Wait() has returned.
Resolved == pcM \in {"mon_since", "mon_if", "mon_log_ok", "mon_log_err", "returned"}

-----------------------------------------------------------------------------
\* C1: with pre-dump enabled, the final checkpoint is invoked only after the
\* pre-dump checkpoint, its archive, its transfer and its unpack have all
\* returned without error, in that order; migrateStart is set only after the
\* unpack of generation 0 has returned (so never at or before the pre-dump
\* checkpoint) and before the final checkpoint is invoked.
C1_PreDumpOrder ==
    preDump =>
      /\ \A k \in FinalCheckpointIdx :
           /\ \E a, b, c, d \in 1..(k - 1) :
                /\ a < b /\ b < c /\ c < d
                /\ IsPreDump(calls[a]) /\ Ok(a)
                /\ IsGen0Archive(calls[b]) /\ Ok(b)
                /\ IsGen0Scp(calls[c]) /\ Ok(c)
                /\ IsGen0Unpack(calls[d]) /\ Ok(d)
                /\ d < migrateStart
           /\ migrateStart # 0
           /\ migrateStart <= k
      /\ migrateStart # 0 =>
           /\ \E d \in CallIdx : IsGen0Unpack(calls[d]) /\ Ok(d) /\ d < migrateStart
           /\ \A i \in PreDumpIdx : i < migrateStart

\* The final checkpoint of a pre-dump migration has been invoked.
C1_Witness == preDump /\ FinalCheckpointIdx # {} /\ migrateStart # 0

\* C2: with pre-dump disabled, at most one checkpoint (and one archive, copy
\* and unpack) is ever invoked, exactly one by the time the restore is
\* launched and when Action returns, and migrateStart is set before that
\* checkpoint is invoked.
C2_SinglePass ==
    ~preDump =>
      /\ Cardinality(CheckpointIdx) <= 1
      /\ PreDumpIdx = {}
      /\ Cardinality({i \in CallIdx : IsArchive(calls[i])}) <= 1
      /\ Cardinality({i \in CallIdx : IsScp(calls[i])}) <= 1
      /\ Cardinality({i \in CallIdx : IsUnpack(calls[i])}) <= 1
      /\ (restoreProc # "none" \/ pcM = "returned") => Cardinality(CheckpointIdx) = 1
      /\ \A k \in CheckpointIdx : migrateStart # 0 /\ migrateStart <= k

\* A single-pass migration has run to the end of Action.
C2_Witness == ~preDump /\ pcM = "returned" /\ Cardinality(CheckpointIdx) = 1

\* C3: the monitor produces exactly one outcome per migration: never more
\* than one, and exactly one once the process has ended, by Action returning
\* or by a panic.
C3_ExactlyOneOutcome ==
    /\ Len(reports) <= 1
    /\ (pcM = "returned" \/ exit = "panic") => Len(reports) = 1

\* C4: the reported branch is the one of the goroutine whose wg.Done released
\* wg.Wait: success exactly when the first signal came from the liveness poll.
C4_FirstResolutionWins ==
    reports # <<>> => (reports[1].succeeded <=> signals[1] = "poll")

\* C5: once the restore is launched, an outcome is eventually reported (a
\* panic of the process is counted as not blocking).
C5_MonitorTerminates ==
    (restoreProc = "running") ~> (reports # <<>> \/ exit = "panic")

\* C6: when the liveness poll is the first to signal, restoreSucceed is set,
\* wg.Wait is released and any outcome reported is success; an outcome
\* reported while restoreCmd.Wait has not returned is success.
C6_LivenessResolves ==
    /\ (signals # <<>> /\ signals[1] = "poll") =>
         /\ restoreSucceed
         /\ ObservedRunning
         /\ wgCounter <= 0
         /\ reports # <<>> => reports[1].succeeded
    /\ (reports # <<>> /\ pcA \in {"off", "wait"}) => reports[1].succeeded

\* Success is reported while the restore process is still running.
C6_Witness ==
    /\ reports # <<>> /\ reports[1].succeeded
    /\ restoreProc = "running" /\ pcA = "wait"

\* C7: when the restore process has exited with an error and no liveness
\* check has seen the container running, the outcome reported is failure and
\* its cause is the error restoreCmd.Wait returned.
C7_RestoreFailure ==
    (reports # <<>> /\ ~ObservedRunning /\ restoreProc = "exited" /\ restoreExit # Nil) =>
        /\ ~reports[1].succeeded
        /\ reports[1].cause = restoreExit

\* A failure is reported after a failed restore and a liveness check that saw
\* nothing running.
C7_Witness ==
    /\ reports # <<>> /\ ~reports[1].succeeded
    /\ restoreExit # Nil /\ statCalls # {} /\ ~ObservedRunning

\* C8: a failed command is the last command issued: the process has ended by
\* log.Fatal, the restore was not launched after it and the monitor was
\* never started; no command is issued twice; after a failed transfer of
\* generation 0 there is no final checkpoint.
C8_FirstErrorAborts ==
    /\ \A i \in CallIdx :
         ~Ok(i) => /\ i = Len(calls)
                   /\ exit = "fatal"
                   /\ ~MonitorStarted
                   /\ restoreProc = "none"
    /\ exit = "fatal" => (calls # <<>> /\ ~Ok(Len(calls)))
    /\ \A i, j \in CallIdx :
         i < j => (calls[i].host # calls[j].host \/ calls[i].argv # calls[j].argv)
    /\ (\E i \in CallIdx : IsGen0Scp(calls[i]) /\ ~Ok(i)) => FinalCheckpointIdx = {}

\* The transfer of generation 0 has failed.
C8_Witness ==
    preDump /\ \E i \in CallIdx : IsGen0Scp(calls[i]) /\ ~Ok(i)

\* C9: after wg.Wait was released by the process-wait goroutine with no
\* running container seen, the liveness poll eventually comes to rest: its
\* goroutines have ended and no ticker is running (or the process has ended).
C9_PollingStops ==
    (Resolved /\ signals = <<"wait">> /\ ~ObservedRunning)
      ~> \/ exit # "none"
         \/ (pcB = "ret" /\ pcC \in {"off", "ret"} /\ ticker # "running")

\* C10: every failure reported carries a non-nil cause, the error
\* restoreCmd.Wait returned.
C10_FailureHasCause ==
    \A i \in 1..Len(reports) :
        ~reports[i].succeeded =>
            (reports[i].cause # Nil /\ reports[i].cause = restoreExit)

\* C11: when the immediate liveness check has seen the container running,
\* the goroutine sets restoreSucceed and signals with no ticker created and
\* no ticker goroutine started; a ticker exists only after a check that saw
\* the container not running.
C11_FastPathNoTicker ==
    /\ pcB \in {"set", "done"} => (ObservedRunning /\ ticker = "none" /\ pcC = "off")
    /\ (pcB = "ret" /\ pcC = "off") =>
         (ObservedRunning /\ ticker = "none" /\ restoreSucceed
            /\ \E i \in 1..Len(signals) : signals[i] = "poll")
    /\ pcB \in {"new_ticker", "go_loop"} => ~ObservedRunning
    /\ ticker # "none" => \E c \in statCalls : c.err = Nil

\* The liveness goroutine has signalled on its immediate check and Action
\* has reported success.
C11_Witness ==
    /\ pcB = "ret" /\ pcC = "off" /\ ticker = "none"
    /\ signals = <<"poll">>
    /\ reports # <<>> /\ reports[1].succeeded

\* The image path a checkpoint writes to, the directory an archive packs, the
\* archive file and the directories of a copy and of an unpack.
CheckpointPath(c) == c.argv[7]
ArchiveFile(c)    == c.argv[4]
ArchiveDir(c)     == c.argv[6]
UnpackDir(c)      == c.argv[4]
UnpackFile(c)     == c.argv[6]

\* C12: within a generation the steps follow one another: an archive is
\* issued only after the checkpoint of the directory it packs has returned
\* without error, a copy only after the archive of the file it copies and
\* the mkdir of its destination directory have, an unpack only after the
\* copy into its directory has; and every command but the last issued has
\* returned without error.
C12_StepsInOrder ==
    /\ \A b \in CallIdx : IsArchive(calls[b]) =>
         \E a \in 1..(b - 1) :
            /\ IsCheckpoint(calls[a]) /\ Ok(a) /\ calls[a].host = "src"
            /\ Join(CheckpointPath(calls[a]), <<"">>) = ArchiveDir(calls[b])
    /\ \A c \in CallIdx : IsScp(calls[c]) =>
         /\ \E b \in 1..(c - 1) :
              /\ IsArchive(calls[b]) /\ Ok(b)
              /\ URL("src", ArchiveFile(calls[b])) = calls[c].argv[1]
         /\ \E m \in 1..(c - 1) :
              /\ IsMkdir(calls[m]) /\ Ok(m) /\ calls[m].host = "dst"
              /\ URL("dst", calls[m].argv[3]) = calls[c].argv[2]
    /\ \A d \in CallIdx : IsUnpack(calls[d]) =>
         \E c \in 1..(d - 1) :
            /\ IsScp(calls[c]) /\ Ok(c)
            /\ calls[c].argv[2] = URL("dst", UnpackDir(calls[d]))
    /\ \A i \in CallIdx : i < Len(calls) => Ok(i)

\* Both generations of a pre-dump migration have been unpacked.
C12_Witness ==
    /\ preDump
    /\ Cardinality({i \in CallIdx : IsUnpack(calls[i]) /\ Ok(i)}) = 2

\* C13: every mkdir is issued before the downtime clock is started.
C13_PrepareBeforeClock ==
    \A i \in CallIdx : IsMkdir(calls[i]) => (migrateStart = 0 \/ i < migrateStart)

RestoreIdx == {i \in CallIdx : IsRestore(calls[i])}

\* C14: the restore is launched at most once, exactly once when the monitor
\* runs, by a non-blocking start on the destination that leaves the restore
\* process running; it directly follows the successful unpack into the
\* directory it restores from, which is images/1 of the destination with
\* pre-dump and images without.
C14_RestoreOnce ==
    /\ Cardinality(RestoreIdx) <= 1
    /\ (MonitorStarted \/ restoreProc # "none") =>
         (RestoreIdx # {} /\ \A r \in RestoreIdx : Ok(r))
    /\ restoreProc # "none" <=> (\E r \in RestoreIdx : Ok(r))
    /\ \A r \in RestoreIdx :
         /\ calls[r].host = "dst"
         /\ calls[r].argv[5] = Lit("restore")
         /\ calls[r].argv[7] = IF preDump THEN dstPath \o <<"images", "1">>
                                          ELSE dstPath \o <<"images">>
         /\ calls[r].argv[7] # dstPath \o <<"images", "0">>
         /\ r > 1 /\ IsUnpack(calls[r - 1]) /\ Ok(r - 1)
         /\ UnpackDir(calls[r - 1]) = calls[r].argv[7]
         /\ \A i \in CallIdx : IsUnpack(calls[i]) => i < r

\* The restore of a pre-dump migration has been launched and its process is
\* running while Action goes on to the monitor.
C14_Witness ==
    preDump /\ RestoreIdx # {} /\ restoreProc = "running" /\ pcM = "mon_add"

\* C15: wg.Done is called at most once and the counter of wg is never negative.
C15_SingleSignal ==
    /\ wgCounter >= 0
    /\ Len(signals) <= 1

HasWord(c, w) == \E i \in 1..Len(c.argv) : c.argv[i] = Lit(w)

\* The container ids given to the checkpoints, the restore and the stats.
UsedIds ==
    {calls[i].argv[4][1] : i \in CheckpointIdx \cup RestoreIdx}
      \cup {c.argv[2][Len(c.argv[2])] : c \in statCalls}

\* C16: the pre-dump checkpoint is issued only with pre-dump enabled, with
\* --pre-dump, without --prev-images-dir and on images/0 of the source; the
\* final checkpoint of a pre-dump migration has no --pre-dump and names as
\* --prev-images-dir the image path of the pre-dump checkpoint; the
\* single-pass checkpoint has neither word; and the checkpoints, the
\* restore and the stats all name one container id, the last segment of
\* the source path.
C16_CheckpointParameters ==
    /\ PreDumpIdx # {} => preDump
    /\ \A k \in PreDumpIdx :
         /\ ~HasWord(calls[k], "--prev-images-dir")
         /\ CheckpointPath(calls[k]) = srcPath \o <<"images", "0">>
         /\ Len(calls[k].argv) = 8
    /\ \A k \in FinalCheckpointIdx :
         IF preDump
           THEN /\ Len(calls[k].argv) = 9
                /\ calls[k].argv[8] = Lit("--prev-images-dir")
                /\ \E a \in PreDumpIdx :
                     a < k /\ calls[k].argv[9] = CheckpointPath(calls[a])
                /\ CheckpointPath(calls[k]) # calls[k].argv[9]
           ELSE /\ Len(calls[k].argv) = 7
                /\ ~HasWord(calls[k], "--prev-images-dir")
    /\ \A k \in CheckpointIdx : calls[k].host = "src"
    /\ UsedIds \subseteq {srcPath[Len(srcPath)]}

\* A pre-dump migration has issued both checkpoints, the restore and a stat.
C16_Witness ==
    /\ preDump /\ PreDumpIdx # {} /\ FinalCheckpointIdx # {}
    /\ RestoreIdx # {} /\ statCalls # {}

StatFailed    == \E c \in statCalls : c.err # Nil
StatSucceeded == \E c \in statCalls : c.err = Nil

\* C17: the liveness goroutines take the running branch only after a stat
\* that returned an error and set up the ticker only after a stat that
\* returned none; so restoreSucceed, a signal of the liveness poll and a
\* reported success all come after some failed stat of the container's
\* runtime-state path on the destination.
C17_RunningIffStatFails ==
    /\ (pcB \in {"set", "done"} \/ pcC \in {"set", "stop", "done"}) => StatFailed
    /\ pcB \in {"new_ticker", "go_loop"} => (StatSucceeded /\ ~StatFailed)
    /\ ticker # "none" => StatSucceeded
    /\ restoreSucceed => StatFailed
    /\ (\E i \in 1..Len(signals) : signals[i] = "poll") => StatFailed
    /\ \A i \in 1..Len(reports) : reports[i].succeeded => StatFailed
    /\ \A c \in statCalls :
         /\ c.host = "dst"
         /\ c.argv = << <<"stat">>,
                        <<"", "var", "run", "opencontainer", "containers",
                          containerId>> >>

\* Success is reported after a stat that succeeded and a later one that failed.
C17_Witness ==
    /\ reports # <<>> /\ reports[1].succeeded
    /\ StatSucceeded /\ StatFailed

IsPrefix(p, q) == Len(p) <= Len(q) /\ SubSeq(q, 1, Len(p)) = p

\* mkdir -p of q on the source, issued before call k and successful, created p.
SrcPrepared(p, k) ==
    \E m \in 1..(k - 1) :
        /\ IsMkdir(calls[m]) /\ Ok(m) /\ calls[m].host = "src"
        /\ IsPrefix(p, calls[m].argv[3])

Parent(p) == SubSeq(p, 1, Len(p) - 1)

\* C18 as stated: the image path of every checkpoint has been created by a
\* successful mkdir on the source before the checkpoint is issued.
C18_EveryCheckpointDirPrepared ==
    \A k \in CheckpointIdx : SrcPrepared(CheckpointPath(calls[k]), k)

\* C18, amended: the image path of the pre-dump checkpoint and of the
\* single-pass checkpoint has been created by a successful mkdir on the
\* source; for the final checkpoint of a pre-dump migration only the parent
\* of its image path has, and no mkdir on the source names the path itself.
C18_CheckpointDirPrepared ==
    \A k \in CheckpointIdx :
        IF preDump /\ k \in FinalCheckpointIdx
          THEN /\ SrcPrepared(Parent(CheckpointPath(calls[k])), k)
               /\ ~SrcPrepared(CheckpointPath(calls[k]), Len(calls) + 1)
          ELSE SrcPrepared(CheckpointPath(calls[k]), k)

\* The final checkpoint of a pre-dump migration has returned without error.
C18_Witness ==
    preDump /\ \E k \in FinalCheckpointIdx : Ok(k)

=============================================================================
